---- MODULE Spec2Model ----
(***************************************************************************)
(* Model of store/connection.go: the Connection handle, its two mutexes,   *)
(* the status serialization MarshalJSON and the one-shot transaction state *)
(* detector TxStateChange (NewTxStateChange / CheckAndSet).                *)
(*                                                                         *)
(* Every statement of CheckAndSet that touches shared memory is one step   *)
(* of the calling goroutine, so that goroutines interleave exactly where   *)
(* the Go memory model lets them.  A panic unwinds through the deferred    *)
(* calls (done = true, then Unlock) and is reported as the outcome of the  *)
(* invocation; the goroutines of the model go on afterwards, as they do    *)
(* when the caller recovers.                                               *)
(***************************************************************************)
EXTENDS Integers, FiniteSets, TLC

\* ---------------------------------------------------------------- bounds
NumConns == 2
NumThreads == 2
MaxDets == 2
MaxTime == 2
MaxEv == 2
MaxCount == 2

Threads == 1..NumThreads
Dets == 1..MaxDets

\* A time.Time is modelled by an instant: 0 is the zero time, 1..MaxTime are
\* readings of the wall clock.  Torn is any value a reader can assemble from
\* the words of two different times when it reads during an unsynchronised
\* store; none of its words combinations is the zero time.
Torn == -1

VARIABLES
    now,          \* the wall clock read by time.Now()
    txActive,     \* c.db.TransactionActive() of each connection's engine session
    evCount,      \* number of transaction begins/ends the engine has performed
    id,           \* Connection.id
    createdAt,    \* Connection.createdAt
    lastUsedAt,   \* Connection.lastUsedAt
    txStartedAt,  \* Connection.txStartedAt
    timeMu,       \* Connection.timeMu: 0 when free, else the holder
    txStateMu,    \* Connection.txStateMu: 0 when free, else the holder
    det,          \* the TxStateChange instances
    th,           \* the goroutines: position and locals
    lastObs,      \* per connection: engine state seen by the latest compare-and-write
    lastEdge,     \* per connection: latest compare-and-write that saw a change
    lastDet       \* per connection: detector of the latest compare-and-write

\* The connections that NewConnection has built.
Conns == DOMAIN id

vars == <<now, txActive, evCount, id, createdAt, lastUsedAt, txStartedAt,
          timeMu, txStateMu, det, th, lastObs, lastEdge, lastDet>>

conn == <<id, createdAt, lastUsedAt, txStartedAt, timeMu, txStateMu>>
engine == <<txActive, evCount>>
hist == <<lastObs, lastEdge, lastDet>>

\* ------------------------------------------------------------ pure parts
IsZero(v) == v = 0

NoMap == [k \in {} |-> 0]

\* json.Marshal of a time.Time: the RFC 3339 text of the instant.
TimeJSON(v) == <<"RFC3339", v>>

\* enabledFromBool(fk)
enabledFromBool(b) == IF b THEN "enabled" ELSE "disabled"

\* sync.Mutex.Lock returns only when the mutex is free.
CanLock_Always(mu, c) == TRUE
CanLock_Global(mu, c) == \A k \in DOMAIN mu : mu[k] = 0
CanLock(mu, c) == mu[c] = 0

\* First branch of CheckAndSet.
ShouldStart_NoGuard(tx, active, started) == ~tx /\ active
ShouldStart(tx, active, started) == ~tx /\ active /\ IsZero(started)

\* Second branch of CheckAndSet.
ShouldClear_Never(tx, active, started) == FALSE
ShouldClear(tx, active, started) == tx /\ ~active /\ ~IsZero(started)

\* The value the deferred func() { t.done = true }() stores.
DoneValue_Forget == FALSE
DoneValue == TRUE

Min(a, b) == IF a < b THEN a ELSE b

\* What a collaborator hands back: a response (or none) and an error (or nil).
NoRes == [resp |-> "none", err |-> "nil"]
Errs == {"e1", "e2"}

\* &ExecuteRequest{[]string{"ROLLBACK"}, false, false}
Rollback == <<"ROLLBACK", FALSE, FALSE>>
ExecuteRequests == {<<"INSERT", FALSE, TRUE>>, <<"BEGIN", TRUE, FALSE>>}
QueryRequests == {<<"SELECT", FALSE>>}
NoCall == [fn |-> "none", c |-> 0, req |-> <<>>]

\* The call each method makes on the store.
StoreCall(op, c, req) ==
    CASE op = "Execute" -> [fn |-> "execute", c |-> c, req |-> req]
      [] op = "ExecuteOrAbort" -> [fn |-> "executeOrAbort", c |-> c, req |-> req]
      [] op = "Query" -> [fn |-> "query", c |-> c, req |-> req]
      [] op = "AbortTransaction" -> [fn |-> "execute", c |-> c, req |-> Rollback]
      [] op = "Close" -> [fn |-> "disconnect", c |-> c, req |-> <<>>]

\* What each method returns, given what its collaborator returned: the pair as
\* it is; AbortTransaction drops the response (_, err :=); MarshalJSON returns
\* nil and the error when FKConstraints fails.
Returned_Swallow(op, r) ==
    IF op \in {"AbortTransaction", "Close"} THEN NoRes ELSE r
Returned(op, r) ==
    IF op \in {"AbortTransaction", "MarshalJSON"}
      THEN [resp |-> "none", err |-> r.err]
      ELSE r

IdleRec == [pc |-> "idle", d |-> 0, c |-> 0, obs |-> FALSE, obsEv |-> 0,
            pre |-> 0, post |-> 0, pending |-> 0, panicking |-> FALSE,
            first |-> FALSE, prior |-> FALSE, outcome |-> "none",
            m |-> NoMap, err |-> FALSE,
            op |-> "none", call |-> NoCall, got |-> NoRes, ret |-> NoRes]

NoDet == [alive |-> FALSE, c |-> 0, tx |-> FALSE, done |-> FALSE, born |-> 0,
          entered |-> FALSE, returned |-> FALSE, normal |-> 0]

\* Positions of CheckAndSet at which the caller holds txStateMu.
CSPcs == {"checkdone", "observe", "compare", "writing", "deferdone", "unlock"}
InCS(t) == th[t].pc \in CSPcs

\* An unsynchronised read of c.txStartedAt.  A read that falls before or after
\* a store gets the field as it is; a read that overlaps a store in flight (the
\* field is several words wide) may also get a mix of the old and new words.
ReadTxStartedAt(c) ==
    {txStartedAt[c]} \cup
    {Torn : u \in {x \in Threads : th[x].pc = "writing" /\ th[x].c = c}}

\* An unsynchronised read of c.lastUsedAt.  The code that stores the field is
\* not in this file; its store is taken as one step.
ReadLastUsedAt(c) == {lastUsedAt[c]}

\* ------------------------------------------------------------------ Init
\* NewConnection(c, s, id) for each of the ids: id and createdAt are set, every
\* other field has its zero value; no transaction is open on a new session.
NewConnection(ids) ==
    /\ now = 1
    /\ txActive = [c \in ids |-> FALSE]
    /\ evCount = [c \in ids |-> 0]
    /\ id = [c \in ids |-> c]
    /\ createdAt = [c \in ids |-> 1]
    /\ lastUsedAt = [c \in ids |-> 0]
    /\ txStartedAt = [c \in ids |-> 0]
    /\ timeMu = [c \in ids |-> 0]
    /\ txStateMu = [c \in ids |-> 0]
    /\ det = [d \in Dets |-> NoDet]
    /\ th = [t \in Threads |-> IdleRec]
    /\ lastObs = [c \in ids |-> "none"]
    /\ lastEdge = [c \in ids |-> "none"]
    /\ lastDet = [c \in ids |-> 0]

\* One connection, every operation on it.
Init == NewConnection({1})

\* Several connections.
InitPair == NewConnection(1..NumConns)

\* ----------------------------------------------------------- environment
Tick ==
    /\ now < MaxTime
    /\ now' = now + 1
    /\ UNCHANGED <<engine, conn, det, th, hist>>

\* The engine opens a transaction on the session of connection c.
Begin(c) ==
    /\ ~txActive[c]
    /\ evCount[c] < MaxEv
    /\ txActive' = [txActive EXCEPT ![c] = TRUE]
    /\ evCount' = [evCount EXCEPT ![c] = @ + 1]
    /\ UNCHANGED <<now, conn, det, th, hist>>

\* The engine commits or rolls back the transaction of connection c.
End(c) ==
    /\ txActive[c]
    /\ evCount[c] < MaxEv
    /\ txActive' = [txActive EXCEPT ![c] = FALSE]
    /\ evCount' = [evCount EXCEPT ![c] = @ + 1]
    /\ UNCHANGED <<now, conn, det, th, hist>>

\* --------------------------------------------------------- TxStateChange
NewTxStateChange(t, c) ==
    /\ th[t].pc = "idle"
    /\ \E d \in Dets :
        /\ ~det[d].alive
        /\ \A e \in Dets : e < d => det[e].alive
        /\ det' = [det EXCEPT ![d] = [NoDet EXCEPT !.alive = TRUE, !.c = c,
                                       !.tx = txActive[c], !.born = evCount[c]]]
    /\ UNCHANGED <<now, engine, conn, th, hist>>

\* A goroutine calls t.CheckAndSet() on detector d.
CallCheckAndSet(t, d) ==
    /\ th[t].pc = "idle"
    /\ det[d].alive
    /\ th' = [th EXCEPT ![t] = [IdleRec EXCEPT !.pc = "lock", !.d = d, !.c = det[d].c,
                                 !.prior = det[d].returned]]
    /\ UNCHANGED <<now, engine, conn, det, hist>>

\* t.c.txStateMu.Lock().  The calls on a detector are ordered by their entry
\* into the critical section: the first call is the first to get the mutex.
Lock(t) ==
    /\ th[t].pc = "lock"
    /\ CanLock(txStateMu, th[t].c)
    /\ txStateMu' = [txStateMu EXCEPT ![th[t].c] = t]
    /\ th' = [th EXCEPT ![t].pc = "checkdone", ![t].first = ~det[th[t].d].entered]
    /\ det' = [det EXCEPT ![th[t].d].entered = TRUE]
    /\ UNCHANGED <<now, engine, id, createdAt, lastUsedAt, txStartedAt, timeMu, hist>>

\* if t.done { panic(...) }
CheckDone(t) ==
    /\ th[t].pc = "checkdone"
    /\ IF det[th[t].d].done
         THEN th' = [th EXCEPT ![t].pc = "deferdone", ![t].panicking = TRUE]
         ELSE th' = [th EXCEPT ![t].pc = "observe"]
    /\ UNCHANGED <<now, engine, conn, det, hist>>

\* The one call of t.c.db.TransactionActive() that either branch makes.
Observe(t) ==
    /\ th[t].pc = "observe"
    /\ th' = [th EXCEPT ![t].pc = "compare", ![t].obs = txActive[th[t].c],
                        ![t].obsEv = evCount[th[t].c]]
    /\ UNCHANGED <<now, engine, conn, det, hist>>

EdgeOf(tx, active, old) ==
    IF tx = active THEN old ELSE IF active THEN "begun" ELSE "ended"

\* The two conditions: which store, if any, the call makes.
Compare(t) ==
    /\ th[t].pc = "compare"
    /\ LET c == th[t].c
           tx == det[th[t].d].tx
           a == th[t].obs
           s == txStartedAt[c]
       IN  IF ShouldStart(tx, a, s)
             THEN /\ th' = [th EXCEPT ![t].pc = "writing", ![t].pre = s, ![t].pending = now]
                  /\ UNCHANGED hist
             ELSE IF ShouldClear(tx, a, s)
               THEN /\ th' = [th EXCEPT ![t].pc = "writing", ![t].pre = s, ![t].pending = 0]
                    /\ UNCHANGED hist
               ELSE /\ th' = [th EXCEPT ![t].pc = "deferdone", ![t].pre = s, ![t].post = s]
                    /\ lastObs' = [lastObs EXCEPT ![c] = IF a THEN "active" ELSE "idle"]
                    /\ lastEdge' = [lastEdge EXCEPT ![c] = EdgeOf(tx, a, @)]
                    /\ lastDet' = [lastDet EXCEPT ![c] = th[t].d]
    /\ UNCHANGED <<now, engine, conn, det>>

\* t.c.txStartedAt = time.Now()  or  t.c.txStartedAt = time.Time{}
Writing(t) ==
    /\ th[t].pc = "writing"
    /\ LET c == th[t].c
           tx == det[th[t].d].tx
           a == th[t].obs
       IN  /\ txStartedAt' = [txStartedAt EXCEPT ![c] = th[t].pending]
           /\ th' = [th EXCEPT ![t].pc = "deferdone", ![t].post = th[t].pending]
           /\ lastObs' = [lastObs EXCEPT ![c] = IF a THEN "active" ELSE "idle"]
           /\ lastEdge' = [lastEdge EXCEPT ![c] = EdgeOf(tx, a, @)]
           /\ lastDet' = [lastDet EXCEPT ![c] = th[t].d]
    /\ UNCHANGED <<now, engine, id, createdAt, lastUsedAt, timeMu, txStateMu, det>>

\* A deferred function that sets the wrong flag: t.tx = true.
DeferDone_SetsTx(t) ==
    /\ th[t].pc = "deferdone"
    /\ det' = [det EXCEPT ![th[t].d].tx = TRUE]
    /\ th' = [th EXCEPT ![t].pc = "unlock"]
    /\ UNCHANGED <<now, engine, conn, hist>>

\* defer func() { t.done = true }()
DeferDone(t) ==
    /\ th[t].pc = "deferdone"
    /\ det' = [det EXCEPT ![th[t].d].done = DoneValue]
    /\ th' = [th EXCEPT ![t].pc = "unlock"]
    /\ UNCHANGED <<now, engine, conn, hist>>

\* An Unlock that is not deferred: a panic leaves the function before it.
Unlock_NotOnPanic(t) ==
    /\ th[t].pc = "unlock"
    /\ txStateMu' = [txStateMu EXCEPT ![th[t].c] = IF th[t].panicking THEN @ ELSE 0]
    /\ th' = [th EXCEPT ![t].pc = "ret",
                        ![t].outcome = IF th[t].panicking THEN "panic" ELSE "normal"]
    /\ det' = [det EXCEPT ![th[t].d].returned = TRUE,
                          ![th[t].d].normal =
                              IF th[t].panicking THEN @ ELSE Min(@ + 1, MaxCount)]
    /\ UNCHANGED <<now, engine, id, createdAt, lastUsedAt, txStartedAt, timeMu, hist>>

\* defer t.c.txStateMu.Unlock(); the call then returns or goes on panicking.
Unlock(t) ==
    /\ th[t].pc = "unlock"
    /\ txStateMu' = [txStateMu EXCEPT ![th[t].c] = 0]
    /\ th' = [th EXCEPT ![t].pc = "ret",
                        ![t].outcome = IF th[t].panicking THEN "panic" ELSE "normal"]
    /\ det' = [det EXCEPT ![th[t].d].returned = TRUE,
                          ![th[t].d].normal =
                              IF th[t].panicking THEN @ ELSE Min(@ + 1, MaxCount)]
    /\ UNCHANGED <<now, engine, id, createdAt, lastUsedAt, txStartedAt, timeMu, hist>>

\* The caller has the outcome and goes on.
Return(t) ==
    /\ th[t].pc \in {"ret", "mj_ret", "st_ret"}
    /\ th' = [th EXCEPT ![t] = IdleRec]
    /\ UNCHANGED <<now, engine, conn, det, hist>>

\* ------------------------------------------------------------ Connection
\* json.Marshal(m): times are rendered as text, the other values as they are.
JSONMarshal(m) ==
    [k \in DOMAIN m |->
        IF k \in {"created_at", "tx_started_at", "last_used_at"} THEN TimeJSON(m[k]) ELSE m[k]]

\* c.MarshalJSON() up to the first read of txStartedAt: the engine's foreign
\* key mode (or its error), then the two fields that never change.
MarshalJSON(t, c) ==
    /\ th[t].pc = "idle"
    /\ \E fk \in BOOLEAN, failed \in BOOLEAN, e \in Errs :
         IF failed
           THEN th' = [th EXCEPT ![t] = [IdleRec EXCEPT !.pc = "mj_ret", !.c = c, !.err = TRUE,
                          !.op = "MarshalJSON",
                          !.got = [resp |-> "none", err |-> e],
                          !.ret = Returned("MarshalJSON", [resp |-> "none", err |-> e])]]
           ELSE th' = [th EXCEPT ![t] = [IdleRec EXCEPT !.pc = "mj_txcheck", !.c = c,
                          !.m = ("fk_constraints" :> enabledFromBool(fk))
                                @@ ("id" :> id[c]) @@ ("created_at" :> createdAt[c])]]
    /\ UNCHANGED <<now, engine, conn, det, hist>>

\* if !c.txStartedAt.IsZero()
MJTxCheck(t) ==
    /\ th[t].pc = "mj_txcheck"
    /\ \E v \in ReadTxStartedAt(th[t].c) :
         th' = [th EXCEPT ![t].pc = IF ~IsZero(v) THEN "mj_txread" ELSE "mj_lucheck"]
    /\ UNCHANGED <<now, engine, conn, det, hist>>

\* m["tx_started_at"] = c.txStartedAt
MJTxRead(t) ==
    /\ th[t].pc = "mj_txread"
    /\ \E v \in ReadTxStartedAt(th[t].c) :
         th' = [th EXCEPT ![t].pc = "mj_lucheck", ![t].m = ("tx_started_at" :> v) @@ @]
    /\ UNCHANGED <<now, engine, conn, det, hist>>

\* if !c.lastUsedAt.IsZero(); when it is zero, return json.Marshal(m)
MJLuCheck(t) ==
    /\ th[t].pc = "mj_lucheck"
    /\ \E v \in ReadLastUsedAt(th[t].c) :
         IF ~IsZero(v)
           THEN th' = [th EXCEPT ![t].pc = "mj_luread"]
           ELSE th' = [th EXCEPT ![t].pc = "mj_ret", ![t].m = JSONMarshal(@)]
    /\ UNCHANGED <<now, engine, conn, det, hist>>

\* m["last_used_at"] = c.lastUsedAt; return json.Marshal(m)
MJLuRead(t) ==
    /\ th[t].pc = "mj_luread"
    /\ \E v \in ReadLastUsedAt(th[t].c) :
         th' = [th EXCEPT ![t].pc = "mj_ret",
                          ![t].m = JSONMarshal(("last_used_at" :> v) @@ @)]
    /\ UNCHANGED <<now, engine, conn, det, hist>>

\* A method that hands its work to the store: the call goes out.
Forward(t, c, op, req) ==
    /\ th[t].pc = "idle"
    /\ th' = [th EXCEPT ![t] = [IdleRec EXCEPT !.pc = "st_call", !.c = c, !.op = op,
                                 !.call = StoreCall(op, c, req)]]
    /\ UNCHANGED <<now, engine, conn, det, hist>>

\* return c.store.execute(c, ex)
Execute(t, c) == \E ex \in ExecuteRequests : Forward(t, c, "Execute", ex)

\* return c.store.executeOrAbort(c, ex)
ExecuteOrAbort(t, c) == \E ex \in ExecuteRequests : Forward(t, c, "ExecuteOrAbort", ex)

\* return c.store.query(c, qr)
Query(t, c) == \E qr \in QueryRequests : Forward(t, c, "Query", qr)

\* _, err := c.store.execute(c, &ExecuteRequest{[]string{"ROLLBACK"}, false, false})
AbortTransaction(t, c) == Forward(t, c, "AbortTransaction", <<>>)

\* return c.store.disconnect(c)
Close(t, c) == Forward(t, c, "Close", <<>>)

\* ----------------------------------------------------------------- store
\* What the store can hand back for a call: success, an error, or an error
\* with a partial response; disconnect has no response.
StoreResults(fn) ==
    IF fn = "disconnect"
      THEN {NoRes, [resp |-> "none", err |-> "e2"]}
      ELSE {[resp |-> "rows", err |-> "nil"], [resp |-> "none", err |-> "e1"],
            [resp |-> "partial", err |-> "e2"]}

\* The store's call comes back and the method returns.
StoreReturn(t) ==
    /\ th[t].pc = "st_call"
    /\ \E r \in StoreResults(th[t].call.fn) :
         th' = [th EXCEPT ![t].pc = "st_ret", ![t].call = NoCall, ![t].got = r,
                          ![t].ret = Returned(th[t].op, r)]
    /\ UNCHANGED <<now, engine, conn, det, hist>>

\* The store stamps the connection when it uses it: lastUsedAt under timeMu.
TouchLastUsed(t, c) ==
    /\ th[t].pc = "idle"
    /\ th' = [th EXCEPT ![t] = [IdleRec EXCEPT !.pc = "lu_lock", !.c = c]]
    /\ UNCHANGED <<now, engine, conn, det, hist>>

LuLock(t) ==
    /\ th[t].pc = "lu_lock"
    /\ CanLock(timeMu, th[t].c)
    /\ timeMu' = [timeMu EXCEPT ![th[t].c] = t]
    /\ th' = [th EXCEPT ![t].pc = "lu_write"]
    /\ UNCHANGED <<now, engine, id, createdAt, lastUsedAt, txStartedAt, txStateMu, det, hist>>

LuWrite(t) ==
    /\ th[t].pc = "lu_write"
    /\ lastUsedAt' = [lastUsedAt EXCEPT ![th[t].c] = now]
    /\ th' = [th EXCEPT ![t].pc = "lu_unlock"]
    /\ UNCHANGED <<now, engine, id, createdAt, txStartedAt, timeMu, txStateMu, det, hist>>

LuUnlock(t) ==
    /\ th[t].pc = "lu_unlock"
    /\ timeMu' = [timeMu EXCEPT ![th[t].c] = 0]
    /\ th' = [th EXCEPT ![t] = IdleRec]
    /\ UNCHANGED <<now, engine, id, createdAt, lastUsedAt, txStartedAt, txStateMu, det, hist>>

\* -------------------------------------------------------- specifications
\* The detector protocol.
NextTx ==
    \/ Tick
    \/ \E c \in Conns : Begin(c)
    \/ \E c \in Conns : End(c)
    \/ \E t \in Threads, c \in Conns : NewTxStateChange(t, c)
    \/ \E t \in Threads, d \in Dets : CallCheckAndSet(t, d)
    \/ \E t \in Threads : Lock(t)
    \/ \E t \in Threads : CheckDone(t)
    \/ \E t \in Threads : Observe(t)
    \/ \E t \in Threads : Compare(t)
    \/ \E t \in Threads : Writing(t)
    \/ \E t \in Threads : DeferDone(t)
    \/ \E t \in Threads : Unlock(t)
    \/ \E t \in Threads : Return(t)

\* Every operation.
Next ==
    \/ NextTx
    \/ \E t \in Threads, c \in Conns : MarshalJSON(t, c)
    \/ \E t \in Threads : MJTxCheck(t)
    \/ \E t \in Threads : MJTxRead(t)
    \/ \E t \in Threads : MJLuCheck(t)
    \/ \E t \in Threads : MJLuRead(t)
    \/ \E t \in Threads, c \in Conns : Execute(t, c)
    \/ \E t \in Threads, c \in Conns : ExecuteOrAbort(t, c)
    \/ \E t \in Threads, c \in Conns : Query(t, c)
    \/ \E t \in Threads, c \in Conns : AbortTransaction(t, c)
    \/ \E t \in Threads, c \in Conns : Close(t, c)
    \/ \E t \in Threads : StoreReturn(t)
    \/ \E t \in Threads, c \in Conns : TouchLastUsed(t, c)
    \/ \E t \in Threads : LuLock(t)
    \/ \E t \in Threads : LuWrite(t)
    \/ \E t \in Threads : LuUnlock(t)

\* One connection used by NumThreads goroutines through every operation.
Spec == Init /\ [][Next]_vars

\* NumConns connections, each with its own detectors.
SpecPair == InitPair /\ [][NextTx]_vars

\* The store's use of a detector around one operation: a detector is open on
\* connection c from its creation until a CheckAndSet call on it is made.
OpenDetector(c) ==
    \E d \in Dets :
        /\ det[d].alive /\ det[d].c = c /\ ~det[d].entered
        /\ \A t \in Threads : th[t].d # d

\* Every detector of connection c has been through a CheckAndSet that returned.
AllReconciled(c) ==
    \A d \in Dets : (det[d].alive /\ det[d].c = c) => det[d].returned

\* Detectors used one after the other, the engine changing its transaction
\* state only between a detector's creation and the CheckAndSet call on it.
NextSeq ==
    \/ Tick
    \/ \E c \in Conns : OpenDetector(c) /\ Begin(c)
    \/ \E c \in Conns : OpenDetector(c) /\ End(c)
    \/ \E t \in Threads, c \in Conns : AllReconciled(c) /\ NewTxStateChange(t, c)
    \/ \E t \in Threads, d \in Dets : CallCheckAndSet(t, d)
    \/ \E t \in Threads : Lock(t)
    \/ \E t \in Threads : CheckDone(t)
    \/ \E t \in Threads : Observe(t)
    \/ \E t \in Threads : Compare(t)
    \/ \E t \in Threads : Writing(t)
    \/ \E t \in Threads : DeferDone(t)
    \/ \E t \in Threads : Unlock(t)
    \/ \E t \in Threads : Return(t)

SpecSeq == Init /\ [][NextSeq]_vars

\* The detector protocol on one connection under fair scheduling of
\* CheckAndSet: a goroutine inside the call keeps running,
\* and a goroutine waiting in Lock gets the mutex if it is free again and again
\* (sync.Mutex hands the mutex to a waiter that would otherwise starve).
\* Nothing obliges the callers, the engine or the clock to act.
Running(t) ==
    CheckDone(t) \/ Observe(t) \/ Compare(t) \/ Writing(t) \/ DeferDone(t) \/ Unlock(t)

Fairness == \A t \in Threads : WF_vars(Running(t)) /\ SF_vars(Lock(t))

SpecFair == Init /\ [][NextTx]_vars /\ Fairness

\* ---------------------------------------------------------------- claims
\* What a call has made of txStartedAt is read off while the caller still holds
\* txStateMu, after the compare-and-write and before the deferred calls.
AfterWrite(t) == th[t].pc \in {"deferdone", "unlock"} /\ ~th[t].panicking
Captured(t) == det[th[t].d].tx

\* C1: the first CheckAndSet call on a detector does not panic and changes
\* txStartedAt in exactly two cases: captured not-active, observed active and
\* txStartedAt zero (it becomes a non-zero reading of the clock); captured
\* active, observed not-active and txStartedAt non-zero (it becomes zero).
\* In every other combination txStartedAt keeps its value.
C1_FirstCallTable ==
    \A t \in Threads :
        /\ (th[t].first /\ th[t].pc \in {"deferdone", "unlock", "ret"}) => ~th[t].panicking
        /\ (th[t].first /\ th[t].pc = "ret") => th[t].outcome = "normal"
        /\ (th[t].first /\ AfterWrite(t)) =>
              LET was == th[t].pre
                  is == txStartedAt[th[t].c]
              IN  IF ~Captured(t) /\ th[t].obs /\ was = 0
                    THEN is \in 1..now
                    ELSE IF Captured(t) /\ ~th[t].obs /\ was # 0
                      THEN is = 0
                      ELSE is = was

\* A first call that captured active, observed not-active and found txStartedAt
\* already zero has returned normally.
C1_Witness ==
    \E t \in Threads :
        /\ th[t].pc = "ret" /\ th[t].first /\ th[t].outcome = "normal"
        /\ Captured(t) /\ ~th[t].obs /\ th[t].pre = 0 /\ th[t].post = 0

\* C2: a CheckAndSet call made on a detector after an earlier call on it has
\* returned always panics.
C2_SecondCallPanics ==
    \A t \in Threads :
        /\ th[t].prior => th[t].pc \notin {"observe", "compare", "writing"}
        /\ (th[t].prior /\ th[t].pc = "ret") => th[t].outcome = "panic"

\* A call made after the first one returned has ended in a panic.
C2_Witness ==
    \E t \in Threads : th[t].pc = "ret" /\ th[t].prior /\ th[t].outcome = "panic"

\* C3: of all the CheckAndSet invocations on one detector, sequential or
\* concurrent, at most one runs the compare-and-write and returns normally;
\* every other one panics.
C3_AtMostOneNormal ==
    /\ \A d \in Dets : det[d].normal <= 1
    /\ \A t, u \in Threads :
          (t # u /\ th[t].d = th[u].d /\ th[t].d # 0
             /\ th[t].pc \in {"observe", "compare", "writing"})
          => th[u].pc \notin {"observe", "compare", "writing"}
    /\ \A t, u \in Threads :
          (t # u /\ th[t].d = th[u].d /\ th[t].pc = "ret" /\ th[u].pc = "ret"
             /\ th[t].outcome = "normal")
          => th[u].outcome = "panic"

\* Two invocations that overlapped on one detector: one returned normally, the
\* other panicked.
C3_Witness ==
    \E t, u \in Threads :
        /\ t # u /\ th[t].d = th[u].d
        /\ th[t].pc = "ret" /\ th[u].pc = "ret"
        /\ ~th[t].prior /\ ~th[u].prior
        /\ th[t].outcome = "normal" /\ th[u].outcome = "panic"

\* C4 as stated: txStartedAt is non-zero iff the engine reported an active
\* transaction to the latest compare-and-write completed on the connection.
C4_LastReport ==
    \A c \in Conns : (txStartedAt[c] # 0) <=> (lastObs[c] = "active")

\* C4 amended: txStartedAt is non-zero iff the latest completed compare-and-write
\* whose observation differed from its detector's captured flag observed an
\* active transaction (and zero when no call has seen a difference yet).
C4_LastChange ==
    \A c \in Conns : (txStartedAt[c] # 0) <=> (lastEdge[c] = "begun")

\* The start time is still set after a later call was told that no transaction
\* is active.
C4_Witness ==
    \E c \in Conns : txStartedAt[c] # 0 /\ lastObs[c] = "idle" /\ lastEdge[c] = "begun"

\* C5: no step replaces a non-zero txStartedAt by a different non-zero time, and
\* a call that captured not-active and observes active while txStartedAt is set
\* makes no store.
C5_NoOverwrite ==
    [][/\ \A c \in Conns :
            \/ txStartedAt'[c] = txStartedAt[c]
            \/ txStartedAt[c] = 0
            \/ txStartedAt'[c] = 0
       /\ \A t \in Threads :
            (/\ th[t].pc = "compare" /\ th'[t].pc # "compare"
             /\ ~Captured(t) /\ th[t].obs /\ txStartedAt[th[t].c] # 0)
            => (th'[t].pc = "deferdone" /\ txStartedAt' = txStartedAt)]_vars

\* A call that captured not-active and observed active found a start time from
\* an earlier clock reading and left it.
C5_Witness ==
    \E t \in Threads :
        /\ AfterWrite(t) /\ ~Captured(t) /\ th[t].obs
        /\ th[t].pre # 0 /\ th[t].pre # now /\ txStartedAt[th[t].c] = th[t].pre

\* C6: no read of txStartedAt, MarshalJSON's included, happens while a
\* CheckAndSet on the same connection is inside its critical section.
C6_ReadsOutsideCriticalSection ==
    [][\A t \in Threads :
          (th[t].pc \in {"mj_txcheck", "mj_txread"} /\ th'[t].pc # th[t].pc)
          => txStateMu[th[t].c] = 0]_vars

\* C7: a CheckAndSet call holds txStateMu from the done check to the end of its
\* store, so no other call's store falls between its read of txStartedAt and
\* its own store: the value it compared is the value it replaces, and the value
\* it left is still there when it releases the mutex.
C7_CompareAndWriteAtomic ==
    \A t \in Threads :
        /\ InCS(t) => txStateMu[th[t].c] = t
        /\ \A u \in Threads : (u # t /\ InCS(t) /\ InCS(u)) => th[u].c # th[t].c
        /\ th[t].pc = "writing" => txStartedAt[th[t].c] = th[t].pre
        /\ AfterWrite(t) => txStartedAt[th[t].c] = th[t].post

\* One call is about to store while a call on another detector of the same
\* connection waits for the mutex.
C7_Witness ==
    \E t, u \in Threads :
        /\ th[t].pc = "writing" /\ th[u].pc = "lock"
        /\ th[t].c = th[u].c /\ th[t].d # th[u].d

\* C8: a CheckAndSet call waiting for its connection's mutex can enter whenever
\* no call on that same connection is inside its critical section, whatever
\* calls on other connections are doing.
C8_OtherConnectionsDoNotBlock ==
    \A u \in Threads :
        (/\ th[u].pc = "lock"
         /\ \A t \in Threads : InCS(t) => th[t].c # th[u].c)
        => ENABLED Lock(u)

\* Two calls on detectors of different connections are inside their critical
\* sections at the same time.
C8_Witness ==
    \E t, u \in Threads :
        /\ InCS(t) /\ InCS(u) /\ th[t].c # th[u].c
        /\ th[t].pc = "compare" /\ th[u].pc = "compare"

\* C9: on a new connection, a detector created before the engine's first begin
\* whose CheckAndSet observes the engine after that begin leaves txStartedAt
\* non-zero; a detector created after that begin whose CheckAndSet observes the
\* engine after the following end leaves txStartedAt zero.
C9_BeginThenEnd ==
    \A t \in Threads :
        AfterWrite(t) =>
            /\ (det[th[t].d].born = 0 /\ th[t].obsEv = 1) => txStartedAt[th[t].c] # 0
            /\ (det[th[t].d].born = 1 /\ th[t].obsEv = 2) => txStartedAt[th[t].c] = 0

\* Detector A has returned after setting the start time; detector B, created
\* while the transaction was open, has just cleared it.
C9_Witness ==
    \E t, u \in Threads :
        /\ th[t].pc = "ret" /\ th[t].outcome = "normal"
        /\ det[th[t].d].born = 0 /\ ~det[th[t].d].tx /\ th[t].obsEv = 1
        /\ th[t].pre = 0 /\ th[t].post # 0
        /\ AfterWrite(u) /\ det[th[u].d].born = 1 /\ det[th[u].d].tx /\ th[u].obsEv = 2
        /\ th[u].pre = th[t].post /\ txStartedAt[th[u].c] = 0

\* C10: a MarshalJSON that returns output has emitted id, created_at and
\* fk_constraints with the connection's values; tx_started_at and last_used_at,
\* when emitted, carry a non-zero time that the field has held.
IsSetTime(j) == \E v \in 1..MaxTime : j = TimeJSON(v)

C10_StatusFields ==
    \A t \in Threads :
        (th[t].pc = "mj_ret" /\ ~th[t].err) =>
            LET m == th[t].m
            IN  /\ {"id", "created_at", "fk_constraints"} \subseteq DOMAIN m
                /\ DOMAIN m \subseteq {"id", "created_at", "fk_constraints",
                                       "tx_started_at", "last_used_at"}
                /\ m["id"] = id[th[t].c]
                /\ m["created_at"] = TimeJSON(createdAt[th[t].c])
                /\ m["fk_constraints"] \in {"enabled", "disabled"}
                /\ "tx_started_at" \in DOMAIN m => IsSetTime(m["tx_started_at"])
                /\ "last_used_at" \in DOMAIN m => IsSetTime(m["last_used_at"])

\* C11: Execute, ExecuteOrAbort, Query and Close return the pair the store's
\* execute, executeOrAbort, query and disconnect returned for this connection
\* and request; AbortTransaction sends one ROLLBACK through execute and returns
\* that call's error; a MarshalJSON whose foreign-key call fails returns that
\* error and no output.
C11_ErrorsUnmodified ==
    \A t \in Threads :
        /\ th[t].pc = "st_call" =>
              /\ th[t].call.c = th[t].c
              /\ th[t].op = "Execute" =>
                    th[t].call.fn = "execute" /\ th[t].call.req \in ExecuteRequests
              /\ th[t].op = "ExecuteOrAbort" =>
                    th[t].call.fn = "executeOrAbort" /\ th[t].call.req \in ExecuteRequests
              /\ th[t].op = "Query" =>
                    th[t].call.fn = "query" /\ th[t].call.req \in QueryRequests
              /\ th[t].op = "Close" => th[t].call.fn = "disconnect"
              /\ th[t].op = "AbortTransaction" =>
                    th[t].call.fn = "execute" /\ th[t].call.req = <<"ROLLBACK", FALSE, FALSE>>
        /\ th[t].pc = "st_ret" =>
              /\ th[t].ret.err = th[t].got.err
              /\ th[t].op # "AbortTransaction" => th[t].ret = th[t].got
        /\ (th[t].pc = "mj_ret" /\ th[t].err) =>
              /\ th[t].m = NoMap
              /\ th[t].ret.err = th[t].got.err /\ th[t].ret.err \in Errs
        /\ (th[t].pc = "mj_ret" /\ ~th[t].err) => th[t].m # NoMap

\* AbortTransaction has returned the error of its ROLLBACK while the other
\* goroutine's Close returned the error of disconnect.
C11_Witness ==
    \E t, u \in Threads :
        /\ th[t].pc = "st_ret" /\ th[t].op = "AbortTransaction"
        /\ th[t].got.err = "e1" /\ th[t].ret.err = "e1"
        /\ th[u].pc = "st_ret" /\ th[u].op = "Close" /\ th[u].ret.err = "e2"

\* A goroutine that has called Lock on a mutex that is not free.
Blocked(t) ==
    \/ th[t].pc = "lock" /\ txStateMu[th[t].c] # 0
    \/ th[t].pc = "lu_lock" /\ timeMu[th[t].c] # 0

\* C12: no goroutine holds timeMu and txStateMu at the same time, and every
\* goroutine that waits for a mutex waits for one whose holder is inside the
\* matching critical section and not itself waiting, so the goroutines are
\* never all waiting for a lock.
C12_LocksDisjointNoDeadlock ==
    /\ \A t \in Threads, c \in Conns, k \in Conns :
          ~(timeMu[c] = t /\ txStateMu[k] = t)
    /\ \A t \in Threads :
          (th[t].pc = "lock" /\ txStateMu[th[t].c] # 0) =>
              LET h == txStateMu[th[t].c]
              IN  h \in Threads /\ h # t /\ InCS(h) /\ th[h].c = th[t].c /\ ~Blocked(h)
    /\ \A t \in Threads :
          (th[t].pc = "lu_lock" /\ timeMu[th[t].c] # 0) =>
              LET h == timeMu[th[t].c]
              IN  /\ h \in Threads /\ h # t /\ th[h].c = th[t].c
                  /\ th[h].pc \in {"lu_write", "lu_unlock"} /\ ~Blocked(h)
    /\ ~(\A t \in Threads : Blocked(t))

\* Both mutexes of a connection are held at once, by different goroutines,
\* one of them stamping lastUsedAt and the other about to store txStartedAt.
C12_Witness ==
    \E t, u \in Threads, c \in Conns :
        /\ t # u /\ timeMu[c] = t /\ txStateMu[c] = u
        /\ th[t].pc = "lu_write" /\ th[u].pc = "writing"

\* C13: when the compare-and-write that precedes a call's on the connection
\* was made by a different detector with the same captured flag and the same
\* observation of the engine, the call makes no store: txStartedAt keeps the
\* state and the time the first of the two left.
C13_SecondIsNoOp ==
    [][\A t \in Threads :
          LET c == th[t].c
              e == lastDet[c]
          IN  (/\ th[t].pc = "compare" /\ th'[t].pc # "compare"
               /\ e # 0 /\ e # th[t].d
               /\ det[e].tx = Captured(t)
               /\ lastObs[c] = (IF th[t].obs THEN "active" ELSE "idle"))
              => /\ th'[t].pc = "deferdone"
                 /\ txStartedAt' = txStartedAt
                 /\ th'[t].post = th'[t].pre]_vars

\* Two detectors that both captured not-active and both observed active have
\* returned: the first recorded the start time, the second found and left it.
C13_Witness ==
    \E t, u \in Threads :
        /\ t # u /\ th[t].pc = "ret" /\ th[u].pc = "ret"
        /\ th[t].outcome = "normal" /\ th[u].outcome = "normal"
        /\ th[t].d # th[u].d /\ ~Captured(t) /\ ~Captured(u)
        /\ th[t].obs /\ th[u].obs
        /\ th[t].pre = 0 /\ th[t].post # 0 /\ th[t].post # now
        /\ th[u].pre = th[t].post /\ th[u].post = th[t].post
        /\ txStartedAt[th[u].c] = th[t].post /\ lastDet[th[u].c] = th[u].d

\* A step of goroutine t inside a CheckAndSet call, from Lock to Unlock.
CheckAndSetStep(t) == th[t].pc \in ({"lock"} \cup CSPcs) /\ th'[t] # th[t]

\* C14: no step changes a connection's id or createdAt, which keep the values
\* NewConnection gave them; no step changes a detector's captured flag or its
\* connection; and a step of CheckAndSet, normal or panicking, leaves
\* lastUsedAt, timeMu and every other detector untouched: on the connection it
\* changes txStartedAt (and the mutex it holds) only, on its detector done only.
C14_Frame ==
    [][/\ id' = id /\ createdAt' = createdAt
       /\ id = [c \in Conns |-> c] /\ createdAt = [c \in Conns |-> 1]
       /\ \A d \in Dets :
            det[d].alive =>
                det'[d].alive /\ det'[d].tx = det[d].tx /\ det'[d].c = det[d].c
       /\ \A t \in Threads :
            CheckAndSetStep(t) =>
                /\ lastUsedAt' = lastUsedAt /\ timeMu' = timeMu
                /\ \A c \in Conns : c # th[t].c =>
                       txStartedAt'[c] = txStartedAt[c] /\ txStateMu'[c] = txStateMu[c]
                /\ \A d \in Dets : d # th[t].d => det'[d] = det[d]
                /\ det'[th[t].d].done # det[th[t].d].done => det'[th[t].d].done]_vars

\* A CheckAndSet has stored a start time on a connection whose lastUsedAt holds
\* an earlier stamp, and that stamp is still there.
C14_Witness ==
    \E t \in Threads :
        /\ AfterWrite(t) /\ th[t].pre = 0 /\ th[t].post # 0
        /\ lastUsedAt[th[t].c] # 0 /\ lastUsedAt[th[t].c] # th[t].post
        /\ det[th[t].d].tx = FALSE /\ det[th[t].d].c = th[t].c

\* C15: under fair scheduling every CheckAndSet invocation finishes, by
\* returning or panicking; it has released txStateMu when it has finished; and
\* every invocation waiting for the mutex gets into its critical section.
C15_EveryCallFinishes ==
    /\ [](\A t \in Threads : th[t].pc \in {"ret", "idle"} =>
             \A c \in Conns : txStateMu[c] # t)
    /\ \A t \in Threads : (th[t].pc = "lock") ~> (th[t].pc = "checkdone")
    /\ \A t \in Threads : (th[t].pc \in ({"lock"} \cup CSPcs)) ~> (th[t].pc = "ret")

\* An invocation waits in Lock while another one, on a different detector of
\* the same connection, is inside its critical section.
C15_Witness ==
    \E t, u \in Threads :
        /\ th[t].pc = "lock" /\ InCS(u) /\ th[u].c = th[t].c
        /\ txStateMu[th[t].c] = u /\ th[t].d # th[u].d

\* An invocation that holds txStateMu and will panic or is panicking: its
\* detector was already used.
Refused(t) ==
    \/ th[t].pc = "checkdone" /\ det[th[t].d].done
    \/ InCS(t) /\ th[t].panicking

\* C16: an invocation on a used detector goes from the done check straight to
\* the deferred calls; from the moment it has the mutex until it has released
\* it no step changes its connection's txStartedAt; the detector's done flag
\* stays true; it releases txStateMu as it leaves with the panic; and an
\* invocation on an unused detector passes the done check.
C16_PanicLeavesStateAlone ==
    [][\A t \in Threads :
          LET c == th[t].c
              d == th[t].d
          IN  /\ Refused(t) => txStartedAt'[c] = txStartedAt[c] /\ det'[d].done
              /\ (Refused(t) /\ th'[t] # th[t]) =>
                    /\ th'[t].panicking
                    /\ th'[t].pc \in {"deferdone", "unlock", "ret"}
              /\ (th[t].pc = "unlock" /\ th[t].panicking /\ th'[t] # th[t]) =>
                    /\ th'[t].pc = "ret" /\ th'[t].outcome = "panic"
                    /\ txStateMu[c] = t /\ txStateMu'[c] = 0
              /\ (th[t].pc = "checkdone" /\ ~det[d].done /\ th'[t] # th[t]) =>
                    th'[t].pc = "observe" /\ ~th'[t].panicking]_vars

\* One invocation has ended in a panic; after it an invocation on another,
\* unused detector of the same connection has entered and stored a start time.
C16_Witness ==
    \E t, u \in Threads :
        /\ th[t].pc = "ret" /\ th[t].outcome = "panic"
        /\ AfterWrite(u) /\ th[u].first /\ th[u].d # th[t].d /\ th[u].c = th[t].c
        /\ th[u].pre = 0 /\ th[u].post # 0 /\ txStateMu[th[u].c] = u

\* C17: when detectors are used one after the other on a connection that
\* started with no transaction, and the engine changes its transaction state
\* only while a detector is open, then after every compare-and-write, and
\* whenever every detector has been reconciled, txStartedAt is non-zero iff the
\* engine's transaction is active.
C17_SequentialAccurate ==
    /\ \A t \in Threads :
          AfterWrite(t) => ((txStartedAt[th[t].c] # 0) <=> txActive[th[t].c])
    /\ \A c \in Conns :
          AllReconciled(c) => ((txStartedAt[c] # 0) <=> txActive[c])

\* The second detector, created during the transaction that the first one
\* recorded, has seen it end and cleared the start time.
C17_Witness ==
    \E t \in Threads :
        /\ AfterWrite(t) /\ Captured(t) /\ ~th[t].obs
        /\ det[th[t].d].born = 1 /\ th[t].obsEv = 2
        /\ th[t].pre # 0 /\ txStartedAt[th[t].c] = 0 /\ ~txActive[th[t].c]
        /\ \E d \in Dets : d # th[t].d /\ det[d].returned /\ det[d].normal = 1 /\ ~det[d].tx

====
